---- MODULE Spec2Model ----
(***************************************************************************)
(* Model of the streaming-event reducer and its notification hub           *)
(* (src/lib/utils/agent-data-parser.ts) together with the callers that     *)
(* feed it (components/integrated-chat-interface.tsx, components/chat.tsx).*)
(*                                                                         *)
(* JavaScript objects are modelled with their identity where the code      *)
(* shares them: active_agents is a reference into the heap `arrays`, so    *)
(* the shallow copy made by getResults() aliases the parser's own array.   *)
(***************************************************************************)
EXTENDS Integers, Sequences, FiniteSets, TLC

VARIABLES
  agentResults,  \* AgentDataParser.agentResults (active_agents is a heap reference)
  arrays,        \* heap of JavaScript arrays: reference -> contents
  listeners,     \* AgentDataParser.listeners, a Map in insertion order
  now,           \* the clock read by new Date()
  seen,          \* per subscriber key: the AgentResults its component holds in React state
  calls,         \* the callback invocations made by the most recent operation
  hist,          \* which events were applied since the aggregate was fresh
  lastEv,        \* the most recent operation and what it met
  registry,      \* per key: the callback last passed to onUpdate and whether it is still on
  lastRaw,       \* the line most recently handed to onData, NoRaw if none was
  px,            \* one request to a streaming route: its response and its streams
  display,       \* the agentResults state of the vehicle dashboard
  lastSnap,      \* the state object the dashboard applied last, if it still shows it
  activeSessions,\* the session manager's map, in insertion order
  smNow,         \* the wall clock the session manager reads, in milliseconds
  smLast,        \* the session manager's most recent call and what it returned
  chat,          \* the Chat component: its agentResults state and the parts of its messages
  grid,          \* ListingsGrid: its listings prop, its animatedListings state, the
                 \* timers not yet fired (one sequence per effect run) and whether the
                 \* effect's dependencies changed since it last ran
  vpd            \* the vehicle dashboard: the agentResults of its last render (the value
                 \* its callbacks close over) and the kinds whose data parts it received

vars == <<agentResults, arrays, listeners, now, seen, calls, hist, lastEv, registry,
          lastRaw, px, display, lastSnap, activeSessions, smNow, smLast, chat, vpd, grid>>

\* the variables the parser and its subscribers never touch
components == <<chat, vpd, grid>>
outside  == <<px, activeSessions, smNow, smLast, components>>
dashVars == <<display, lastSnap>>

(***************************************************************************)
(* Bounds and program constants                                            *)
(***************************************************************************)
MaxCount   == 2    \* cap on total_agents / completed_agents
MaxPayload == 2    \* distinct result payloads per kind
MaxTime    == 1    \* clock values 0..MaxTime

Kinds    == {"listings", "research", "sentiment", "media"}
Undefined == 0

Sessions == {"s1", "s2"}
Keys     == {"chat-s1", "chat-s2", "vehicle-v1"}
KeySession(id) == IF id = "chat-s2" THEN "s2" ELSE "s1"

ArrIds == 0..Cardinality(Keys)

\* agent names carried by the events of each specification
CoreAgents   == {"listings", "research", "media"}
NotifyAgents == {"research", "media"}
HubAgents    == {"research"}

(***************************************************************************)
(* Values                                                                  *)
(***************************************************************************)
NoResult == [agent_type |-> "none", payload |-> 0]
Result(k, p) == [agent_type |-> k, payload |-> p]

Event(t, a, s, r) == [type |-> t, agent |-> a, success |-> s, result |-> r]
NullEvent == Event("null", "none", FALSE, NoResult)

SpawnEvents(agents)    == {Event("agent_spawn", a, FALSE, NoResult) : a \in agents}
CompleteEvents(agents) ==
  UNION {{Event("agent_complete", a, TRUE, r) :
            r \in {NoResult} \cup {Result(a, p) : p \in 1..MaxPayload}}
         \cup {Event("agent_complete", a, FALSE, r) : r \in {NoResult, Result(a, 1)}} :
         a \in agents}
SuccessEvents(agents) == {Event("agent_complete", a, TRUE, Result(a, 1)) : a \in agents}
OtherEvents == {Event("chat_response", "none", FALSE, NoResult)}
\* an envelope without its data member: event.data is undefined
NoDataAgent == "no-data"
HasData(event) == event.agent # NoDataAgent
DatalessEvents ==
  {Event(t, NoDataAgent, FALSE, NoResult) : t \in {"agent_spawn", "agent_complete"}}
\* a successful completion whose result is of none of the four kinds
UnknownKindEvents == {Event("agent_complete", "analytics", TRUE, Result("analytics", 1))}

Callback(kind, arg) == [kind |-> kind, arg |-> arg]
PlainCallbacks     == {Callback("ok", "-"), Callback("throw", "-")}
KeepCallbacks      == {Callback("keep", "-")}
ReentrantCallbacks == {Callback(kd, k) : kd \in {"sub", "unsub"}, k \in Keys}

Includes(s, x) == \E i \in DOMAIN s : s[i] = x
Filter(s, x)   == SelectSeq(s, LAMBDA y : y # x)

NewAggregate(ref, t) ==
  [total_agents |-> 0, completed_agents |-> 0, active_agents |-> ref,
   listings |-> Undefined, research |-> Undefined,
   sentiment |-> Undefined, media |-> Undefined, last_updated |-> t]

Active == arrays[agentResults.active_agents]

\* references still held by some component state
SeenRefs(sn) == {sn[k][1].active_agents : k \in {x \in Keys : sn[x] # <<>>}}
FreshRef == CHOOSE r \in ArrIds : r \notin SeenRefs(seen)
                                  /\ \A q \in ArrIds \ SeenRefs(seen) : r <= q

\* garbage arrays are forgotten
Collect(arr, ar, sn) ==
  [r \in ArrIds |-> IF r = ar.active_agents \/ r \in SeenRefs(sn) THEN arr[r] ELSE <<>>]

Out(ar, arr, n) == [agentResults |-> ar, arrays |-> arr, notify |-> n, threw |-> FALSE]
\* the handler ends with a TypeError before it has written anything
Raise(ar, arr)  == [agentResults |-> ar, arrays |-> arr, notify |-> FALSE, threw |-> TRUE]

(***************************************************************************)
(* AgentDataParser                                                         *)
(***************************************************************************)
getResults(ar) == ar    \* { ...this.agentResults }: fields copied, the array shared

\* variant: pushes without the includes() test
handleAgentSpawn_AlwaysPush(ar, arr, event, t) ==
  Out([ar EXCEPT !.total_agents = @ + 1, !.last_updated = t],
      [arr EXCEPT ![ar.active_agents] = Append(@, event.agent)],
      TRUE)

handleAgentSpawn(ar, arr, event, t) ==
  LET agentType == event.agent
      ref       == ar.active_agents
      absent    == ~Includes(arr[ref], agentType)
  IN IF ~HasData(event) THEN Raise(ar, arr) ELSE
     Out([ar EXCEPT !.total_agents = IF absent THEN @ + 1 ELSE @,
                    !.last_updated = t],
         IF absent THEN [arr EXCEPT ![ref] = Append(@, agentType)] ELSE arr,
         TRUE)

\* variant: records the completion but leaves the agent in active_agents
handleAgentComplete_KeepActive(ar, arr, event, t, fresh) ==
  IF ~event.success \/ event.result = NoResult
  THEN Out(ar, arr, FALSE)
  ELSE LET kind == event.result.agent_type
           ar1  == [ar EXCEPT !.completed_agents = @ + 1, !.last_updated = t]
       IN Out(IF kind \in Kinds THEN [ar1 EXCEPT ![kind] = event.result.payload] ELSE ar1,
              arr, TRUE)

\* variant: only the missing result is tested, success is ignored
handleAgentComplete_IgnoreSuccess(ar, arr, event, t, fresh) ==
  IF event.result = NoResult
  THEN Out(ar, arr, FALSE)
  ELSE LET kind == event.result.agent_type
           ar1  == [ar EXCEPT !.active_agents = fresh,
                              !.completed_agents = @ + 1,
                              !.last_updated = t]
       IN Out(IF kind \in Kinds THEN [ar1 EXCEPT ![kind] = event.result.payload] ELSE ar1,
              [arr EXCEPT ![fresh] = Filter(arr[ar.active_agents], event.agent)], TRUE)

handleAgentComplete(ar, arr, event, t, fresh) ==
  IF ~HasData(event) THEN Raise(ar, arr)
  ELSE IF ~event.success \/ event.result = NoResult
  THEN Out(ar, arr, FALSE)
  ELSE LET kind == event.result.agent_type
           ar1  == [ar EXCEPT !.active_agents = fresh,
                              !.completed_agents = @ + 1,
                              !.last_updated = t]
           ar2  == IF kind \in Kinds
                   THEN [ar1 EXCEPT ![kind] = event.result.payload]
                   ELSE ar1
       IN Out(ar2, [arr EXCEPT ![fresh] = Filter(arr[ar.active_agents], event.agent)], TRUE)

reset(ar, arr, t, fresh) ==
  Out(NewAggregate(fresh, t), [arr EXCEPT ![fresh] = <<>>], TRUE)

\* variant: appends without replacing the entry already stored under the key
onUpdate_Append(ls, id, callback) == Append(ls, [id |-> id, cb |-> callback])

onUpdate(ls, id, callback) ==
  IF \E i \in DOMAIN ls : ls[i].id = id
  THEN [i \in DOMAIN ls |-> IF ls[i].id = id THEN [id |-> id, cb |-> callback] ELSE ls[i]]
  ELSE Append(ls, [id |-> id, cb |-> callback])

offUpdate(ls, id) == SelectSeq(ls, LAMBDA e : e.id # id)

\* what running one callback does to the registry
RunCallback(ls, cb) ==
  CASE cb.kind = "sub"   -> onUpdate(ls, cb.arg, Callback("ok", "-"))
    [] cb.kind = "unsub" -> offUpdate(ls, cb.arg)
    [] OTHER             -> ls

\* Map.prototype.forEach walks the live entry list: an entry deleted before
\* its turn is skipped, an entry appended during the walk is visited.
RECURSIVE ForEach(_, _, _, _)
ForEach(ls, i, results, acc) ==
  IF i > Len(ls)
  THEN [listeners |-> ls, calls |-> acc]
  ELSE LET e    == ls[i]
           ls2  == RunCallback(ls, e.cb)
           gone == Cardinality({j \in 1..i : ~Includes([x \in DOMAIN ls2 |-> ls2[x].id], ls[j].id)})
       IN ForEach(ls2, i + 1 - gone, results,
                  Append(acc, [id |-> e.id, cb |-> e.cb, results |-> results]))

\* variant: no try/catch around the callback, the first throw ends the pass
notifyListeners_NoCatch(ls, ar) ==
  LET full   == ForEach(ls, 1, getResults(ar), <<>>)
      throws == {i \in DOMAIN full.calls : full.calls[i].cb.kind = "throw"}
      first  == CHOOSE i \in throws : \A j \in throws : i <= j
  IN IF throws = {} THEN full
     ELSE [listeners |-> full.listeners, calls |-> SubSeq(full.calls, 1, first)]

notifyListeners(ls, ar) == ForEach(ls, 1, getResults(ar), <<>>)

(***************************************************************************)
(* Bookkeeping shared by the actions                                       *)
(***************************************************************************)
Op(name, session, key, ev, wasActive, wasPopulated) ==
  [op |-> name, session |-> session, key |-> key, ev |-> ev,
   wasActive |-> wasActive, wasPopulated |-> wasPopulated]

PlainOp(name) == Op(name, "-", "-", NullEvent, FALSE, FALSE)

NoCallback == Callback("none", "-")
Registered(cb) == [cb |-> cb, on |-> TRUE]

\* the onUpdate / offUpdate calls made by the callbacks of one pass
RECURSIVE Replay(_, _, _)
Replay(reg, cs, i) ==
  IF i > Len(cs) THEN reg
  ELSE LET cb == cs[i].cb
       IN Replay(CASE cb.kind = "sub"   -> [reg EXCEPT ![cb.arg] = Registered(Callback("ok", "-"))]
                   [] cb.kind = "unsub" -> [reg EXCEPT ![cb.arg].on = FALSE]
                   [] OTHER             -> reg,
                 cs, i + 1)

(***************************************************************************)
(* The vehicle dashboard and parseStateData                                *)
(***************************************************************************)
DashKey  == "vehicle-v1"
SnapKeys == {"research", "media", "analytics"}

\* one entry of agent_data[key]: its data with or without an agent_id, or
\* an entry without data
Data(id, body) == [agent_id |-> id, body |-> body]
NullData       == Data(0, 0)
NoData         == [agent_id |-> <<>>, body |-> 0]

\* parseListingsData .. parseMediaData: the agent_id of the data, or
\* `${kind}_${Date.now()}` when the data has none
parseData(kind, data, t) ==
  [agent_id |-> IF data.agent_id # 0 THEN <<"id", data.agent_id>> ELSE <<kind, t>>,
   body     |-> data.body]

EmptyDisplay(t) ==
  [total_agents |-> 0, completed_agents |-> 0, active_agents |-> <<>>,
   listings |-> NoData, research |-> NoData, sentiment |-> NoData, media |-> NoData,
   last_updated |-> t]

\* a state object: active_agents may be missing, agent_data may be missing
State(hasActive, active, hasData, data, cur) ==
  [hasActive |-> hasActive, active_agents |-> active, hasData |-> hasData,
   agent_data |-> data, current_results |-> cur]

Latest(items) == items[Len(items)]
\* the keys whose case of the switch ran to its end
Parsed(state) ==
  {k \in SnapKeys : Len(state.agent_data[k]) > 0
                      /\ (k \in Kinds => Latest(state.agent_data[k]) # NullData)}

parseStateData(state, t) ==
  IF ~state.hasActive THEN [threw |-> TRUE, value |-> EmptyDisplay(t)]
  ELSE LET done == IF state.hasData THEN Parsed(state) ELSE {}
           slot(k) == IF k \in done
                      THEN parseData(k, Latest(state.agent_data[k]), t)
                      ELSE NoData
       IN [threw |-> FALSE,
           value |-> [total_agents     |-> Cardinality(done) + Len(state.active_agents),
                      completed_agents |-> Cardinality(done),
                      active_agents    |-> state.active_agents,
                      listings         |-> NoData,
                      research         |-> slot("research"),
                      sentiment        |-> NoData,
                      media            |-> slot("media"),
                      last_updated     |-> t]]

\* the state objects a stream can end with
ItemLists(k) ==
  IF k = "research"
  THEN {<<>>, <<Data(0, 1)>>, <<Data(1, 1), Data(1, MaxPayload)>>}
         \cup {<<Data(1, b)>> : b \in 1..MaxPayload}
  ELSE IF k = "media" THEN {<<>>, <<Data(1, 1)>>, <<NullData>>}
                      ELSE {<<>>, <<Data(1, 1)>>}
States ==
  {State(TRUE, a, TRUE, d, FALSE) :
     a \in {<<>>, <<"media">>},
     d \in {f \in [SnapKeys -> UNION {ItemLists(k) : k \in SnapKeys}] :
              \A k \in SnapKeys : f[k] \in ItemLists(k)}}
    \cup {State(FALSE, <<>>, TRUE, [k \in SnapKeys |-> <<>>], FALSE),
          State(TRUE, <<>>, FALSE, [k \in SnapKeys |-> <<>>], TRUE),
          State(TRUE, <<>>, FALSE, [k \in SnapKeys |-> <<>>], FALSE)}

\* updateAgentResults: the dashboard shows the object the parser handed over
FromParser == [src |-> "parser", results |-> EmptyDisplay(0)]
ToDashboard(cs) ==
  \E i \in DOMAIN cs : cs[i].id = DashKey /\ cs[i].cb.kind = "keep"

\* what the dashboard renders
ShownOf(d, sn, arr) ==
  IF d.src = "parser"
  THEN LET r == sn[DashKey][1]
           slot(k) == IF r[k] = Undefined THEN NoData
                      ELSE [agent_id |-> <<"id", 1>>, body |-> r[k]]
       IN [total_agents     |-> r.total_agents,
           completed_agents |-> r.completed_agents,
           active_agents    |-> arr[r.active_agents],
           listings         |-> slot("listings"),
           research         |-> slot("research"),
           sentiment        |-> slot("sentiment"),
           media            |-> slot("media"),
           last_updated     |-> r.last_updated]
  ELSE d.results

(***************************************************************************)
(* The session manager                                                     *)
(***************************************************************************)
\* ret: the session id returned; removed: how many records a sweep deleted
NoCall == [op |-> "init", key |-> <<>>, ret |-> <<>>, created |-> FALSE, removed |-> 0]

\* ids are sequences of characters; NoUser is the userId left undefined
NoUser == <<>>
DayMs  == 86400000   \* 24 * 60 * 60 * 1000
Interfaces == {"chat", "vehicle-profile"}

\* `${userId || 'anonymous'}-${vehicleId}`
SessionKey(vehicleId, userId) ==
  (IF userId = NoUser THEN <<"anonymous">> ELSE userId) \o <<"-">> \o vehicleId
\* `session-${vehicleId}-${Date.now()}`
SessionId(vehicleId, t) == [vehicleId |-> vehicleId, at |-> t]
NoSessionId == SessionId(<<>>, 0)

SessionInfo(vehicleId, userId, t) ==
  [sessionId |-> SessionId(vehicleId, t), vehicleId |-> vehicleId, userId |-> userId,
   createdAt |-> t, lastActivity |-> t, activeInterfaces |-> {"vehicle-profile"}]

Has(as, key)   == \E i \in DOMAIN as : as[i].key = key
Get(as, key)   == as[CHOOSE i \in DOMAIN as : as[i].key = key].info
Touch(as, i, t) == [as EXCEPT ![i].info.lastActivity = t]

\* variant: the record found is returned without refreshing lastActivity
getVehicleSession_NoTouch(as, vehicleId, userId, t) ==
  LET sessionKey == SessionKey(vehicleId, userId)
      as1 == IF Has(as, sessionKey) THEN as
             ELSE Append(as, [key |-> sessionKey, info |-> SessionInfo(vehicleId, userId, t)])
  IN [activeSessions |-> as1, ret |-> Get(as1, sessionKey).sessionId]

getVehicleSession(as, vehicleId, userId, t) ==
  LET sessionKey == SessionKey(vehicleId, userId)
      as1 == IF Has(as, sessionKey) THEN as
             ELSE Append(as, [key |-> sessionKey, info |-> SessionInfo(vehicleId, userId, t)])
      i   == CHOOSE j \in DOMAIN as1 : as1[j].key = sessionKey
      as2 == Touch(as1, i, t)
  IN [activeSessions |-> as2, ret |-> as2[i].info.sessionId]

\* the first record, in insertion order, that carries the session id
Matches(as, sessionId) == {i \in DOMAIN as : as[i].info.sessionId = sessionId}
First(I) == CHOOSE i \in I : \A j \in I : i <= j

shareSession(as, sessionId, interfaceType, t) ==
  IF Matches(as, sessionId) = {} THEN as
  ELSE LET i == First(Matches(as, sessionId))
       IN Touch([as EXCEPT ![i].info.activeInterfaces = @ \cup {interfaceType}], i, t)

Without(as, i) == SubSeq(as, 1, i - 1) \o SubSeq(as, i + 1, Len(as))

\* variant: the walk steps over the entry that follows a deleted one
RECURSIVE Sweep_SkipNext(_, _, _)
Sweep_SkipNext(as, i, cutoff) ==
  IF i > Len(as) THEN as
  ELSE IF as[i].info.lastActivity < cutoff
       THEN Sweep_SkipNext(Without(as, i), i + 1, cutoff)
       ELSE Sweep_SkipNext(as, i + 1, cutoff)

\* for (const [key, session] of entries()) with delete(key) inside: the
\* iterator of a Map goes on with the entry that followed the deleted one
RECURSIVE Sweep(_, _, _)
Sweep(as, i, cutoff) ==
  IF i > Len(as) THEN as
  ELSE IF as[i].info.lastActivity < cutoff
       THEN Sweep(Without(as, i), i, cutoff)
       ELSE Sweep(as, i + 1, cutoff)

cleanupOldSessions(as, t) == Sweep(as, 1, t - DayMs)

Kept(sn, cs) ==
  [k \in Keys |->
     IF \E i \in DOMAIN cs : cs[i].id = k /\ cs[i].cb.kind = "keep"
     THEN <<cs[CHOOSE i \in DOMAIN cs : cs[i].id = k /\ cs[i].cb.kind = "keep"].results>>
     ELSE sn[k]]

Commit(out) ==
  LET pass == IF out.notify
              THEN notifyListeners(listeners, out.agentResults)
              ELSE [listeners |-> listeners, calls |-> <<>>]
      sn   == Kept(seen, pass.calls)
  IN /\ agentResults' = out.agentResults
     /\ listeners' = pass.listeners
     /\ calls' = pass.calls
     /\ seen' = sn
     /\ arrays' = Collect(out.arrays, out.agentResults, sn)
     /\ registry' = Replay(registry, pass.calls, 1)
     /\ display' = IF ToDashboard(pass.calls) THEN FromParser ELSE display
     /\ lastSnap' = IF ToDashboard(pass.calls) THEN <<>> ELSE lastSnap
     /\ UNCHANGED outside


(***************************************************************************)
(* The streaming routes: text, bytes and the line adapter                  *)
(***************************************************************************)
MaxPieces == 4

\* text is a sequence of characters; "E" stands for a character of two bytes
Prefix     == <<"d", "a", "t", "a", ":", " ">>
Newline    == "\n"
Whitespace == {" ", Newline}
Pieces     == {Prefix, <<"E">>, <<Newline>>}

RECURSIVE Texts(_)
Texts(n) ==
  IF n = 0 THEN {<<>>}
  ELSE LET T == Texts(n - 1) IN T \cup {t \o q : t \in T, q \in Pieces}

UpstreamTexts == Texts(MaxPieces)

RECURSIVE Flatten(_)
Flatten(ss) == IF ss = <<>> THEN <<>> ELSE Head(ss) \o Flatten(Tail(ss))

\* TextEncoder.encode
EncodeChar(c) ==
  CASE c = "E" -> <<"c3", "a9">>
    [] c = "?" -> <<"ef", "bf", "bd">>
    [] OTHER   -> <<c>>
Encode(text) == Flatten([i \in DOMAIN text |-> EncodeChar(text[i])])

\* TextDecoder.decode(chunk, { stream: true }): an incomplete character is
\* held back until its last byte arrives
RECURSIVE Decode(_, _, _, _)
Decode(pending, bytes, i, acc) ==
  IF i > Len(bytes) THEN [text |-> acc, pending |-> pending]
  ELSE LET b == bytes[i]
       IN IF pending # <<>>
          THEN IF b = "a9"
               THEN Decode(<<>>, bytes, i + 1, Append(acc, "E"))
               ELSE Decode(<<>>, bytes, i, Append(acc, "?"))
          ELSE IF b = "c3"
               THEN Decode(<<b>>, bytes, i + 1, acc)
               ELSE IF b \in {"a9", "ef", "bf", "bd"}
                    THEN Decode(<<>>, bytes, i + 1, Append(acc, "?"))
                    ELSE Decode(<<>>, bytes, i + 1, Append(acc, b))

StartsWith(str, pre) == Len(str) >= Len(pre) /\ SubSeq(str, 1, Len(pre)) = pre
Slice(str, n)        == SubSeq(str, n + 1, Len(str))
Blank(str)           == \A i \in DOMAIN str : str[i] \in Whitespace

\* String.prototype.split('\n')
RECURSIVE Split(_)
Split(str) ==
  IF \A i \in DOMAIN str : str[i] # Newline THEN <<str>>
  ELSE LET i == CHOOSE j \in DOMAIN str :
                  str[j] = Newline /\ \A m \in 1..(j - 1) : str[m] # Newline
       IN <<SubSeq(str, 1, i - 1)>> \o Split(Slice(str, i))

EventLine(line) == Encode(Prefix \o Slice(line, 6) \o <<Newline, Newline>>)

\* variant: the incomplete last line is dropped instead of kept
transform_DropBuffer(st, chunk) ==
  LET d     == Decode(st.pending, chunk, 1, <<>>)
      lines == Split(st.buffer \o d.text)
      whole == SelectSeq(SubSeq(lines, 1, Len(lines) - 1),
                         LAMBDA line : StartsWith(line, Prefix))
  IN [st EXCEPT !.pending = d.pending,
                !.buffer  = <<>>,
                !.out     = @ \o Flatten([i \in DOMAIN whole |-> EventLine(whole[i])])]

transform(st, chunk) ==
  LET d     == Decode(st.pending, chunk, 1, <<>>)
      lines == Split(st.buffer \o d.text)
      whole == SelectSeq(SubSeq(lines, 1, Len(lines) - 1),
                         LAMBDA line : StartsWith(line, Prefix))
  IN [st EXCEPT !.pending = d.pending,
                !.buffer  = lines[Len(lines)],
                !.out     = @ \o Flatten([i \in DOMAIN whole |-> EventLine(whole[i])])]

flush(st) ==
  IF ~Blank(st.buffer) /\ StartsWith(st.buffer, Prefix)
  THEN [st EXCEPT !.out = @ \o Encode(st.buffer \o <<Newline, Newline>>)]
  ELSE st

\* one line of a response body as the decoder receives it
\* prefixes: how many times 'data: ' leads the line; cls: what follows
Raw(prefixes, cls, ev) == [prefixes |-> prefixes, cls |-> cls, ev |-> ev]
NoRaw         == Raw(0, "none", NullEvent)
ErrorEvent    == Event("error", "none", FALSE, NoResult)
ErrorObject   == Event("undefined", "none", FALSE, NoResult)
ErrorEnvelope == <<Raw(1, "json", ErrorEvent), Raw(1, "done", NullEvent)>>
ErrorJson     == <<Raw(0, "json", ErrorObject)>>

Endpoints == {"chat", "vehicle"}
Outcomes  == {"refused", "non2xx", "nobody", "ok"}
Faults    == {"timeout", "other"}

\* a user_context object, key by key; Absent: the object has no such key
Absent == "absent"
Context(request_type, ui_format) ==
  [request_type |-> request_type, ui_format |-> ui_format]
\* body.user_context || {} when the request carries none
NoContext == Context(Absent, Absent)
InboundContexts ==
  {NoContext, Context(Absent, "plain"), Context("chat", Absent)}

\* { ...base, ...over }: a key of the later object replaces that of the earlier
Spread(base, over) ==
  [k \in DOMAIN base |-> IF over[k] # Absent THEN over[k] ELSE base[k]]

\* user_context of the backendBody each route forwards
chatContext(inbound)    == inbound
vehicleContext(inbound) ==
  Spread(Context("vehicle_profile", "generative"), inbound)

IdlePx ==
  [endpoint |-> "none", sent |-> NoContext, phase |-> "idle", status |-> 0, ctype |-> "-",
   body |-> <<>>, down |-> "none", closeOnDead |-> FALSE, fault |-> "none",
   text |-> <<>>, rest |-> <<>>, pending |-> <<>>, buffer |-> <<>>,
   out |-> <<>>]   \* out: the bytes enqueued downstream, in order

Failed(endpoint, status, ctype, body) ==
  [IdlePx EXCEPT !.endpoint = endpoint, !.phase = "done", !.status = status,
                 !.ctype = ctype, !.body = body]

Streaming(endpoint, text) ==
  [IdlePx EXCEPT !.endpoint = endpoint, !.phase = "streaming", !.status = 200,
                 !.ctype = "text/event-stream", !.down = "open",
                 !.text = text, !.rest = Encode(text)]

\* POST of the chat-stream route up to the Response it returns
chatPOST(outcome, text, inbound) ==
  [(IF outcome = "ok"
    THEN Streaming("chat", text)
    ELSE Failed("chat", 200, "text/event-stream", ErrorEnvelope))
   EXCEPT !.sent = chatContext(inbound)]

\* POST of the vehicle-stream route up to the Response it returns
vehiclePOST(outcome, text, inbound) ==
  [(CASE outcome = "ok"     -> Streaming("vehicle", text)
      [] outcome = "nobody" -> [Streaming("vehicle", <<>>) EXCEPT !.phase = "done",
                                                                  !.down = "closed"]
      [] OTHER              -> Failed("vehicle", 500, "application/json", ErrorJson))
   EXCEPT !.sent = vehicleContext(inbound)]

\* close() of a stream; on a stream that is no longer open it throws
Close(st) ==
  IF st.down = "open"
  THEN [st EXCEPT !.down = "closed", !.phase = "done"]
  ELSE [st EXCEPT !.closeOnDead = TRUE, !.phase = "done"]

\* catch of the chat-stream read loop
chatCatch(st, fault) ==
  IF fault = "timeout"
  THEN Close(flush([st EXCEPT !.fault = fault]))
  ELSE [st EXCEPT !.fault = fault, !.down = "errored", !.phase = "done"]

\* catch and finally of the vehicle-stream read loop
vehicleCatch(st, fault) ==
  Close([st EXCEPT !.fault = fault, !.down = "errored"])

(***************************************************************************)
(* The decoder                                                             *)
(***************************************************************************)
Returned(v) == [threw |-> FALSE, value |-> v]
Thrown      == [threw |-> TRUE, value |-> NullEvent]

\* JSON.parse of what is left of the line once one prefix is stripped
JSONparse(raw) ==
  IF raw.cls = "json" /\ raw.prefixes = 0 THEN Returned(raw.ev) ELSE Thrown

StripPrefix(raw) == [raw EXCEPT !.prefixes = IF @ > 0 THEN @ - 1 ELSE 0]
TrimsToEmpty(raw) == raw.prefixes = 0 /\ raw.cls \in {"empty", "ws"}
IsDone(raw)       == raw.prefixes = 0 /\ raw.cls = "done"

\* variant: the parse error is not caught
parseStreamingEvent_NoCatch(raw) ==
  LET cleanData == StripPrefix(raw)
  IN IF TrimsToEmpty(cleanData) \/ IsDone(cleanData)
     THEN Returned(NullEvent)
     ELSE JSONparse(cleanData)

\* variant: an envelope of another type is turned into null
parseStreamingEvent_DropOthers(raw) ==
  LET cleanData == StripPrefix(raw)
  IN IF TrimsToEmpty(cleanData) \/ IsDone(cleanData)
     THEN Returned(NullEvent)
     ELSE LET parsed == JSONparse(cleanData)
          IN IF parsed.threw
                  \/ parsed.value.type \notin {"agent_spawn", "agent_complete", "state_snapshot"}
             THEN Returned(NullEvent)
             ELSE parsed

parseStreamingEvent(raw) ==
  LET cleanData == StripPrefix(raw)
  IN IF TrimsToEmpty(cleanData) \/ IsDone(cleanData)
     THEN Returned(NullEvent)
     ELSE LET parsed == JSONparse(cleanData)
          IN IF parsed.threw THEN Returned(NullEvent) ELSE parsed

\* the lines the stream can carry: breaks, the end marker, broken text, JSON
RawInputs(agents) ==
  {Raw(n, c, NullEvent) : n \in 0..2, c \in {"empty", "ws", "done", "done_ws", "garbage"}}
    \cup {Raw(n, "json", e) : n \in 0..2,
          e \in {NullEvent} \cup OtherEvents \cup SpawnEvents(agents) \cup SuccessEvents(agents)}

(***************************************************************************)
(* The Chat component: the effect over the parts of the messages           *)
(***************************************************************************)
MaxParts == 3

\* useState initial value; active_agents is held by value here
ChatInitial == NewAggregate(<<>>, 0)

\* part.data of a data-<kind> part: missing, an object, or an empty array
NoPartData == 0
EmptyArray == -1
\* Array.isArray(part.data) ? part.data[0] : part.data
Unwrap(data) == IF data = EmptyArray THEN Undefined ELSE data

Part(dataType, agent, status, data) ==
  [dataType |-> dataType, agent |-> agent, status |-> status, data |-> data]
StatusPart(agent, status) == Part("agent-status", agent, status, 1)
DataPart(kind, data)      == Part(kind, "none", "none", data)

\* the body of message.parts.forEach for one part
processPart(acc, part) ==
  LET r == acc.results
  IN CASE part.dataType \in Kinds ->
            IF part.data # NoPartData /\ r[part.dataType] = Undefined
            THEN [results |-> [r EXCEPT ![part.dataType] = Unwrap(part.data),
                                        !.completed_agents = @ + 1],
                  hasUpdates |-> TRUE]
            ELSE acc
       [] part.dataType = "agent-status" /\ part.status = "started" ->
            IF ~Includes(r.active_agents, part.agent)
            THEN [results |-> [r EXCEPT !.active_agents = Append(@, part.agent),
                                        !.total_agents = @ + 1],
                  hasUpdates |-> TRUE]
            ELSE acc
       [] part.dataType = "agent-status" /\ part.status = "completed" ->
            [results |-> [r EXCEPT !.active_agents = Filter(@, part.agent)],
             hasUpdates |-> TRUE]
       [] OTHER -> acc

RECURSIVE WalkParts(_, _, _)
WalkParts(parts, i, acc) ==
  IF i > Len(parts) THEN acc
  ELSE WalkParts(parts, i + 1, processPart(acc, parts[i]))

\* the effect on [messages]: walk every part from a copy of the state, and
\* set the state if anything was written
partsEffect(results, parts, t) ==
  LET walked == WalkParts(parts, 1, [results |-> results, hasUpdates |-> FALSE])
  IN IF parts # <<>> /\ walked.hasUpdates
     THEN [walked.results EXCEPT !.last_updated = t]
     ELSE results

(***************************************************************************)
(* Actions                                                                 *)
(***************************************************************************)
Init ==
  /\ agentResults = NewAggregate(0, 0)
  /\ arrays = [r \in ArrIds |-> <<>>]
  /\ listeners = <<>>
  /\ now = 0
  /\ seen = [k \in Keys |-> <<>>]
  /\ calls = <<>>
  /\ hist = [spawned |-> {}, other |-> FALSE]
  /\ lastEv = PlainOp("init")
  /\ registry = [k \in Keys |-> [cb |-> NoCallback, on |-> FALSE]]
  /\ px = IdlePx
  /\ lastRaw = NoRaw
  /\ display = [src |-> "state", results |-> EmptyDisplay(0)]
  /\ lastSnap = <<>>
  /\ activeSessions = <<>>
  /\ smNow = 0
  /\ smLast = NoCall
  /\ chat = [results |-> ChatInitial, parts |-> <<>>]
  /\ vpd = [rendered |-> EmptyDisplay(0), received |-> {}]
  /\ grid = [listings |-> <<>>, animatedListings |-> <<>>, timers |-> <<>>,
             stale |-> FALSE]

Tick ==
  /\ now < MaxTime
  /\ now' = now + 1
  /\ calls' = <<>>
  /\ lastEv' = PlainOp("tick")
  /\ UNCHANGED <<agentResults, arrays, listeners, seen, hist, registry>>
  /\ lastRaw' = NoRaw
  /\ UNCHANGED outside
  /\ UNCHANGED dashVars

\* onData of the chat interface past the decoder: switch on the event type,
\* inside the try/catch of onData
Handle(session, ev, raw) ==
  LET out == CASE ev.type = "agent_spawn" ->
                    handleAgentSpawn(agentResults, arrays, ev, now)
               [] ev.type = "agent_complete" ->
                    handleAgentComplete(agentResults, arrays, ev, now, FreshRef)
               [] OTHER -> Out(agentResults, arrays, FALSE)
  IN /\ out.agentResults.total_agents <= MaxCount
     /\ out.agentResults.completed_agents <= MaxCount
     /\ Commit(out)
     /\ hist' = IF ev.type = "agent_spawn"
                THEN [hist EXCEPT !.spawned = @ \cup {ev.agent}]
                ELSE IF ev.type = "agent_complete"
                     THEN [hist EXCEPT !.other = TRUE]
                     ELSE hist
     /\ lastEv' = Op("onData", session, "-", ev,
                     Includes(Active, ev.agent),
                     ev.result.agent_type \in Kinds
                       /\ agentResults[ev.result.agent_type] # Undefined)
     /\ lastRaw' = raw
     /\ UNCHANGED now

\* onData with an event that is already decoded
OnData(session, ev) == Handle(session, ev, NoRaw)

\* onData with a line of text: parseStreamingEvent, then the switch
OnDataPart(session, raw) ==
  LET streamEvent == parseStreamingEvent(raw)
  IN IF streamEvent.threw
     THEN /\ calls' = <<>>
          /\ lastRaw' = raw
          /\ lastEv' = Op("onData", session, "-", NullEvent, FALSE, FALSE)
          /\ UNCHANGED <<agentResults, arrays, listeners, now, seen, hist, registry>>
          /\ UNCHANGED outside
          /\ UNCHANGED dashVars
     ELSE Handle(session, streamEvent.value, raw)

Reset ==
  /\ Commit(reset(agentResults, arrays, now, FreshRef))
  /\ lastRaw' = NoRaw
  /\ hist' = [spawned |-> {}, other |-> FALSE]
  /\ lastEv' = PlainOp("reset")
  /\ UNCHANGED now

OnUpdate(id, callback) ==
  /\ listeners' = onUpdate(listeners, id, callback)
  /\ calls' = <<>>
  /\ lastEv' = Op("onUpdate", "-", id, NullEvent, FALSE, FALSE)
  /\ registry' = [registry EXCEPT ![id] = Registered(callback)]
  /\ UNCHANGED <<agentResults, arrays, now, seen, hist>>
  /\ lastRaw' = NoRaw
  /\ UNCHANGED outside
  /\ UNCHANGED dashVars

OffUpdate(id) ==
  /\ listeners' = offUpdate(listeners, id)
  /\ calls' = <<>>
  /\ lastEv' = Op("offUpdate", "-", id, NullEvent, FALSE, FALSE)
  /\ registry' = [registry EXCEPT ![id].on = FALSE]
  /\ UNCHANGED <<agentResults, arrays, now, seen, hist>>
  /\ lastRaw' = NoRaw
  /\ UNCHANGED outside
  /\ UNCHANGED dashVars

(***************************************************************************)
(* Specification of the reducer: the events of one stream and reset        *)
(***************************************************************************)
Next ==
  \/ \E ev \in {NullEvent} \cup OtherEvents
                \cup SpawnEvents(CoreAgents) \cup CompleteEvents(CoreAgents) :
       OnData("s1", ev)
  \/ Reset

Spec == Init /\ [][Next]_vars

(***************************************************************************)
(* Specification of the reducer with subscribers whose callbacks return or *)
(* throw, and a clock                                                      *)
(***************************************************************************)
CoreKeys == {"chat-s1", "chat-s2"}
\* the first component's callback may throw, the second one's returns
CoreCallbacks(id) == IF id = "chat-s1" THEN PlainCallbacks ELSE {Callback("ok", "-")}

NextNotify ==
  \/ Tick
  \/ \E ev \in {NullEvent} \cup SpawnEvents(NotifyAgents) \cup SuccessEvents(NotifyAgents) :
       OnData("s1", ev)
  \/ Reset
  \/ \E id \in CoreKeys : \E cb \in CoreCallbacks(id) : OnUpdate(id, cb)
  \/ \E id \in CoreKeys : OffUpdate(id)

SpecNotify == Init /\ [][NextNotify]_vars

\* Chat's message-parts effect on an agent-status "started" part: the copy
\* { ...agentResults } shares active_agents with the state it was made from
SubscriberPush(id, agent) ==
  /\ seen[id] # <<>>
  /\ LET held == seen[id][1]
         ref  == held.active_agents
     IN /\ ~Includes(arrays[ref], agent)
        /\ held.total_agents < MaxCount
        /\ arrays' = [arrays EXCEPT ![ref] = Append(@, agent)]
        /\ seen' = [seen EXCEPT ![id] = <<[held EXCEPT !.total_agents = @ + 1,
                                                      !.last_updated = now]>>]
  /\ calls' = <<>>
  /\ lastEv' = Op("subscriberPush", KeySession(id), id,
                  Event("agent-status", agent, FALSE, NoResult), FALSE, FALSE)
  /\ UNCHANGED <<agentResults, listeners, now, hist, registry>>
  /\ lastRaw' = NoRaw
  /\ UNCHANGED outside
  /\ UNCHANGED dashVars

(***************************************************************************)
(* Specification of two sessions whose components keep what they are       *)
(* handed (setAgentResults) on the one global parser                       *)
(***************************************************************************)
SharedKeys == {"chat-s1"}

NextShared ==
  \/ \E s \in Sessions, ev \in SpawnEvents(HubAgents) \cup SuccessEvents(HubAgents) :
       OnData(s, ev)
  \/ Reset
  \/ \E id \in SharedKeys, cb \in KeepCallbacks : OnUpdate(id, cb)
  \/ \E id \in SharedKeys : OffUpdate(id)
  \/ \E id \in SharedKeys, a \in NotifyAgents : SubscriberPush(id, a)

SpecShared == Init /\ [][NextShared]_vars

(***************************************************************************)
(* Specification of the hub with callbacks that subscribe or unsubscribe   *)
(* while a notification pass is running                                    *)
(***************************************************************************)
NextHub ==
  \/ \E ev \in SpawnEvents(HubAgents) : OnData("s1", ev)
  \/ Reset
  \/ \E id \in Keys, cb \in {Callback("ok", "-")} \cup ReentrantCallbacks : OnUpdate(id, cb)
  \/ \E id \in Keys : OffUpdate(id)

SpecHub == Init /\ [][NextHub]_vars

(***************************************************************************)
(* Properties of the reducer                                               *)
(***************************************************************************)
IsSpawn(op)    == op.op = "onData" /\ op.ev.type = "agent_spawn"
IsComplete(op) == op.op = "onData" /\ op.ev.type = "agent_complete"
IsSuccess(op)  == IsComplete(op) /\ op.ev.success /\ op.ev.result # NoResult
ValidSuccess(op) ==
  IsSuccess(op) /\ op.ev.agent \in Kinds /\ op.ev.result.agent_type = op.ev.agent
CalledIds(cs)  == {cs[i].id : i \in DOMAIN cs}
TimesCalled(cs, id) == Cardinality({i \in DOMAIN cs : cs[i].id = id})

\* C1: in every reachable state completed_agents <= total_agents.
C1_CompletedWithinTotal ==
  agentResults.completed_agents <= agentResults.total_agents

\* C2: a populated payload slot keeps its content over every step that is
\* not a reset (a second successful completion is discarded).
C2_SlotsImmutable ==
  [][lastEv'.op # "reset" =>
       \A k \in Kinds : agentResults[k] # Undefined => agentResults'[k] = agentResults[k]]_vars

\* C3: after an agent_complete with success=false the named agent is not
\* in active_agents.
C3_FailureRemovesAgent ==
  [][(IsComplete(lastEv') /\ ~lastEv'.ev.success) =>
       ~Includes(Active', lastEv'.ev.agent)]_vars

\* C4: a valid successful agent_complete for a kind that is in
\* active_agents removes the kind from active_agents, raises
\* completed_agents by exactly 1 and leaves the kind's slot non-empty.
C4_SuccessCompletes ==
  [][(ValidSuccess(lastEv') /\ Includes(Active, lastEv'.ev.agent)) =>
       /\ ~Includes(Active', lastEv'.ev.agent)
       /\ agentResults'.completed_agents = agentResults.completed_agents + 1
       /\ agentResults'[lastEv'.ev.agent] # Undefined]_vars

C4_Witness ==
  /\ ValidSuccess(lastEv)
  /\ lastEv.wasActive
  /\ agentResults.completed_agents >= 1
  /\ Active # <<>>

\* C5: while only agent_spawn events of one kind have been applied to a
\* fresh aggregate, active_agents is exactly that kind once and
\* total_agents is 1.
C5_IdempotentSpawn ==
  \A k \in Kinds :
    (hist.spawned = {k} /\ ~hist.other) =>
      Active = <<k>> /\ agentResults.total_agents = 1

C5_Witness ==
  /\ Cardinality(hist.spawned) = 1
  /\ ~hist.other
  /\ IsSpawn(lastEv)
  /\ lastEv.wasActive

\* C6: a null envelope, a duplicate agent_spawn and a successful
\* agent_complete for an already populated slot invoke no callback.
NoOpInput(op) ==
  /\ op.op = "onData"
  /\ \/ op.ev.type = "null"
     \/ IsSpawn(op) /\ op.wasActive
     \/ IsSuccess(op) /\ op.wasPopulated
C6_NoOpSilent == NoOpInput(lastEv) => calls = <<>>

\* C7: an accepted mutation (first spawn of a kind, successful completion)
\* sets last_updated to the current time and invokes every registered
\* callback exactly once with the post-mutation aggregate, throwing
\* callbacks included.
Accepted(op) == (IsSpawn(op) /\ ~op.wasActive) \/ IsSuccess(op)
C7_NotifyAll ==
  [][Accepted(lastEv') =>
       /\ agentResults'.last_updated = now'
       /\ CalledIds(calls') = {listeners[i].id : i \in DOMAIN listeners}
       /\ \A i \in DOMAIN listeners : TimesCalled(calls', listeners[i].id) = 1
       /\ \A i \in DOMAIN calls' : calls'[i].results = agentResults']_vars

C7_Witness ==
  /\ Accepted(lastEv)
  /\ Len(calls) = 2
  /\ calls[1].cb.kind = "throw"
  /\ agentResults.last_updated = now
  /\ now > 0

(***************************************************************************)
(* Properties of sharing and of the notification pass                      *)
(***************************************************************************)
\* what the holder of a delivered snapshot reads from it
Observed(id) ==
  IF seen[id] = <<>> THEN <<>>
  ELSE <<[seen[id][1] EXCEPT !.active_agents = arrays[seen[id][1].active_agents]]>>

ParserView == [agentResults EXCEPT !.active_agents = Active]

\* C8: an event applied for one session neither notifies a subscriber of
\* another session nor changes the aggregate that subscriber observes.
C8_SessionIsolation ==
  [][lastEv'.op = "onData" =>
       \A id \in Keys :
         KeySession(id) # lastEv'.session =>
           id \notin CalledIds(calls') /\ Observed(id)' = Observed(id)]_vars

\* C9: a delivered snapshot is an immutable copy: it changes only by being
\* replaced at a new delivery (or by its own holder), and a holder writing
\* to its snapshot leaves the parser's aggregate as it was.
C9_SnapshotImmutable ==
  [][/\ \A id \in Keys :
          (id \notin CalledIds(calls') /\ lastEv'.key # id) =>
             Observed(id)' = Observed(id)
     /\ lastEv'.op = "subscriberPush" => ParserView' = ParserView]_vars

\* C10: the callbacks invoked in a notification pass are exactly those
\* registered when the pass began, whatever the callbacks do to the
\* registry during the pass.
C10_StablePass ==
  [][lastEv'.op \in {"onData", "reset"} /\ (IsSpawn(lastEv') \/ lastEv'.op = "reset") =>
       /\ CalledIds(calls') = {listeners[i].id : i \in DOMAIN listeners}
       /\ \A i \in DOMAIN listeners : TimesCalled(calls', listeners[i].id) = 1]_vars

(***************************************************************************)
(* Properties of the registry                                              *)
(***************************************************************************)
Entries(ls, id) == {i \in DOMAIN ls : ls[i].id = id}
Notified(op)    == IsSpawn(op) \/ IsSuccess(op) \/ op.op = "reset"

\* C11: the registry holds one entry per key that is on, carrying the
\* callback last registered under it, and none for a key taken off; a
\* notification invokes exactly these callbacks, once each; offUpdate of a
\* key that is not registered leaves the registry as it was.
C11_OnePerKey ==
  [][/\ \A id \in Keys :
          /\ Cardinality(Entries(listeners', id)) = (IF registry'[id].on THEN 1 ELSE 0)
          /\ \A i \in Entries(listeners', id) : listeners'[i].cb = registry'[id].cb
     /\ Notified(lastEv') =>
          \A id \in Keys :
            /\ TimesCalled(calls', id) = (IF registry[id].on THEN 1 ELSE 0)
            /\ \A i \in DOMAIN calls' : calls'[i].id = id => calls'[i].cb = registry[id].cb
     /\ (lastEv'.op = "offUpdate" /\ ~registry[lastEv'.key].on) => listeners' = listeners]_vars

\* one subscriber was taken off, the other re-registered with another
\* callback, and a notification reached only the remaining one
C11_Witness ==
  /\ Notified(lastEv)
  /\ Len(calls) = 1
  /\ \E id \in Keys : ~registry[id].on /\ registry[id].cb # NoCallback
  /\ calls[1].cb = registry[calls[1].id].cb
  /\ calls[1].cb.kind = "throw"

\* C19: an agent_complete with success=false leaves completed_agents and
\* the four payload slots as they were.
C19_FailureFrame ==
  [][(IsComplete(lastEv') /\ ~lastEv'.ev.success) =>
       /\ agentResults'.completed_agents = agentResults.completed_agents
       /\ \A k \in Kinds : agentResults'[k] = agentResults[k]]_vars

C19_Witness ==
  /\ IsComplete(lastEv)
  /\ ~lastEv.ev.success
  /\ lastEv.ev.result # NoResult
  /\ lastEv.wasActive
  /\ agentResults[lastEv.ev.agent] = Undefined
  /\ agentResults.completed_agents = 1

(***************************************************************************)
(* The streaming routes: one request, whose state is local to its handler  *)
(***************************************************************************)
parserVars == <<agentResults, arrays, listeners, now, seen, calls, hist, lastEv, registry,
                lastRaw>>
notProxy   == <<parserVars, dashVars, activeSessions, smNow, smLast, components>>

Post(endpoint, outcome, text, inbound) ==
  /\ px.phase = "idle"
  /\ outcome # "ok" => text = <<>>
  /\ px' = IF endpoint = "chat" THEN chatPOST(outcome, text, inbound)
                                ELSE vehiclePOST(outcome, text, inbound)
  /\ UNCHANGED notProxy

\* one turn of the chat-stream read loop: read, write, transform
ChatRead(n) ==
  /\ px.endpoint = "chat" /\ px.phase = "streaming"
  /\ n \in 1..Len(px.rest)
  /\ px' = transform([px EXCEPT !.rest = Slice(@, n)], SubSeq(px.rest, 1, n))
  /\ UNCHANGED notProxy

\* the read that reports done: writer.close() runs flush
ChatDone ==
  /\ px.endpoint = "chat" /\ px.phase = "streaming"
  /\ px.rest = <<>>
  /\ px' = Close(flush(px))
  /\ UNCHANGED notProxy

ChatFault(fault) ==
  /\ px.endpoint = "chat" /\ px.phase = "streaming"
  /\ px' = chatCatch(px, fault)
  /\ UNCHANGED notProxy

\* one turn of the vehicle-stream read loop: decode, encode, enqueue
VehicleRead(n) ==
  /\ px.endpoint = "vehicle" /\ px.phase = "streaming"
  /\ n \in 1..Len(px.rest)
  /\ LET d == Decode(px.pending, SubSeq(px.rest, 1, n), 1, <<>>)
     IN px' = [px EXCEPT !.rest = Slice(@, n), !.pending = d.pending,
                         !.out = @ \o Encode(d.text)]
  /\ UNCHANGED notProxy

VehicleDone ==
  /\ px.endpoint = "vehicle" /\ px.phase = "streaming"
  /\ px.rest = <<>>
  /\ px' = Close(px)
  /\ UNCHANGED notProxy

VehicleFault(fault) ==
  /\ px.endpoint = "vehicle" /\ px.phase = "streaming"
  /\ px' = vehicleCatch(px, fault)
  /\ UNCHANGED notProxy

MaxChunk == 8

NextProxy ==
  \/ \E e \in Endpoints : \E o \in Outcomes : \E t \in UpstreamTexts :
       \E c \in (IF t = <<>> THEN InboundContexts ELSE {NoContext}) : Post(e, o, t, c)
  \/ \E n \in 1..MaxChunk : ChatRead(n)
  \/ ChatDone
  \/ \E f \in Faults : ChatFault(f)
  \/ \E n \in 1..MaxChunk : VehicleRead(n)
  \/ VehicleDone
  \/ \E f \in Faults : VehicleFault(f)

SpecProxy == Init /\ [][NextProxy]_vars

(***************************************************************************)
(* Properties of the streaming routes                                      *)
(***************************************************************************)
NewlinesOf(text) == {i \in DOMAIN text : text[i] = Newline}
NthNewline(text, k) ==
  CHOOSE j \in NewlinesOf(text) : Cardinality({m \in NewlinesOf(text) : m < j}) = k - 1
\* the k-th complete line of the text, and what follows the last newline
LineOf(text, k) ==
  SubSeq(text, IF k = 1 THEN 1 ELSE NthNewline(text, k - 1) + 1, NthNewline(text, k) - 1)
Trailing(text) ==
  LET nl == NewlinesOf(text)
  IN IF nl = {} THEN text
     ELSE Slice(text, CHOOSE j \in nl : \A m \in nl : m <= j)
Forwarded(text) ==
  LET all  == [k \in 1..Cardinality(NewlinesOf(text)) |-> LineOf(text, k)]
                \o <<Trailing(text)>>
      data == SelectSeq(all, LAMBDA line : StartsWith(line, Prefix))
  IN [i \in DOMAIN data |-> Encode(data[i] \o <<Newline, Newline>>)]
Served(endpoint) ==
  px.endpoint = endpoint /\ px.phase = "done" /\ px.down = "closed" /\ px.fault = "none"

\* C14: whatever the chunking, the chat-stream adapter forwards each complete
\* line that starts with 'data: ' once, in order and unmodified, and the
\* trailing partial line exactly when it starts with 'data: '.
C14_ChunkIndependent == Served("chat") => px.out = Flatten(Forwarded(px.text))

\* a data line with a two-byte character and a trailing partial data line
\* were both forwarded
C14_Witness ==
  /\ Served("chat")
  /\ px.text = Prefix \o <<"E", Newline>> \o Prefix
  /\ Len(Forwarded(px.text)) = 2
  /\ px.out # <<>>

(***************************************************************************)
(* The decoder on the lines of a stream                                    *)
(***************************************************************************)
NextDecode ==
  \/ \E raw \in RawInputs(HubAgents) : OnDataPart("s1", raw)
  \/ \E cb \in PlainCallbacks : OnUpdate("chat-s1", cb)
  \/ Reset

SpecDecode == Init /\ [][NextDecode]_vars

Recognized   == {"agent_spawn", "agent_complete", "state_snapshot"}
NotAnEvent(raw) ==
  \/ raw.cls \in {"empty", "ws", "done", "done_ws", "garbage"}
  \/ raw.cls = "json" /\ raw.prefixes = 2
OtherEnvelope(raw) ==
  /\ raw.cls = "json" /\ raw.prefixes < 2
  /\ raw.ev # NullEvent
  /\ raw.ev.type \notin Recognized
Decoded == lastEv.op = "onData" /\ lastRaw # NoRaw

\* C12: when the upstream cannot be reached or answers non-2xx before any
\* byte is streamed, either route answers 200 with text/event-stream and a
\* body that is one error envelope followed by [DONE], and no line of that
\* body makes the decoder hand an agent event to the reducer.
C12_ErrorEnvelope ==
  (px.phase = "done" /\ px.down = "none") =>
    /\ px.status = 200
    /\ px.ctype = "text/event-stream"
    /\ px.body = ErrorEnvelope
    /\ \A i \in DOMAIN px.body :
         parseStreamingEvent(px.body[i]).value.type \notin {"agent_spawn", "agent_complete"}

\* C13: when a read of the upstream fails after streaming began, the
\* downstream stream ends closed, not aborted or errored, whatever the fault
\* and on either route, and close is never called on a stream that is no
\* longer open.
C13_GracefulClose ==
  px.fault # "none" => (px.down = "closed" /\ ~px.closeOnDead)

\* C17: parseStreamingEvent returns for every line, and returns null for
\* broken JSON, [DONE] and an empty or blank body; the aggregate stays as it
\* was and nobody is notified.
C17_NullOnNoise ==
  [][(lastEv'.op = "onData" /\ lastRaw' # NoRaw) =>
       /\ ~parseStreamingEvent(lastRaw').threw
       /\ NotAnEvent(lastRaw') =>
            /\ parseStreamingEvent(lastRaw').value = NullEvent
            /\ agentResults' = agentResults
            /\ arrays' = arrays
            /\ calls' = <<>>]_vars

C17_Witness ==
  /\ Decoded
  /\ lastRaw.cls = "garbage"
  /\ listeners # <<>>
  /\ agentResults.total_agents > 0
  /\ calls = <<>>

ApplyState(state) ==
  LET parsedResults == parseStateData(state, now)
      applied == (state.hasData \/ state.current_results) /\ ~parsedResults.threw
  IN /\ display' = IF applied THEN [src |-> "state", results |-> parsedResults.value]
                              ELSE display
     /\ lastSnap' = IF applied THEN <<state>> ELSE <<>>
     /\ calls' = <<>>
     /\ lastEv' = Op("applyState", "-", DashKey, NullEvent, applied, FALSE)
     /\ lastRaw' = NoRaw
     /\ UNCHANGED <<agentResults, arrays, listeners, now, seen, hist, registry>>
     /\ UNCHANGED outside

NextDash ==
  \/ Tick
  \/ \E ev \in SuccessEvents(HubAgents) : OnData("s1", ev)
  \/ \E cb \in KeepCallbacks : OnUpdate(DashKey, cb)
  \/ \E state \in States : ApplyState(state)

SpecDash == Init /\ [][NextDash]_vars

Shown == ShownOf(display, seen, arrays)
Carries(state, k) ==
  /\ state.hasData /\ k \in SnapKeys
  /\ Len(state.agent_data[k]) > 0 /\ Latest(state.agent_data[k]) # NullData
SameButTime(a, b) == [a EXCEPT !.last_updated = 0] = [b EXCEPT !.last_updated = 0]

\* C15: a state object applied after agents completed locally leaves the
\* populated slots as they are and populates the empty slots it carries.
C15_SnapshotMerges ==
  [][(lastEv'.op = "applyState" /\ lastEv'.wasActive /\ display.src = "parser") =>
       \A k \in Kinds :
         LET before == Shown[k]
             after  == ShownOf(display', seen', arrays')[k]
         IN /\ before # NoData => after = before
            /\ (before = NoData /\ Carries(lastSnap'[1], k)) => after # NoData]_vars

\* C16: the same state object applied twice in a row gives the aggregate of
\* one application, last_updated aside, and the second application notifies
\* nobody.
C16_SnapshotIdempotent ==
  [][(lastEv'.op = "applyState" /\ lastEv'.wasActive
        /\ display.src = "state" /\ lastSnap' = lastSnap) =>
       /\ SameButTime(display'.results, display.results)
       /\ calls' = <<>>]_vars

(***************************************************************************)
(* The session manager: calls and the passing of time                      *)
(***************************************************************************)
MaxDays == 1

notSession == <<parserVars, dashVars, px, components>>

Elapse(d) ==
  /\ (smNow + d) \div DayMs <= MaxDays
  /\ (smNow + d) % DayMs <= MaxDays
  /\ smNow' = smNow + d
  /\ smLast' = [NoCall EXCEPT !.op = "elapse"]
  /\ UNCHANGED <<activeSessions, notSession>>

GetVehicleSession(vehicleId, userId) ==
  LET r == getVehicleSession(activeSessions, vehicleId, userId, smNow)
  IN /\ activeSessions' = r.activeSessions
     /\ smLast' = [op |-> "getVehicleSession", key |-> SessionKey(vehicleId, userId),
                   ret |-> <<r.ret>>,
                   created |-> ~Has(activeSessions, SessionKey(vehicleId, userId)),
                   removed |-> 0]
     /\ UNCHANGED <<smNow, notSession>>

ShareSession(sessionId, interfaceType) ==
  /\ activeSessions' = shareSession(activeSessions, sessionId, interfaceType, smNow)
  /\ smLast' = [NoCall EXCEPT !.op = "shareSession"]
  /\ UNCHANGED <<smNow, notSession>>

CleanupOldSessions ==
  /\ activeSessions' = cleanupOldSessions(activeSessions, smNow)
  /\ smLast' = [NoCall EXCEPT !.op = "cleanupOldSessions",
                              !.removed = Len(activeSessions) - Len(activeSessions')]
  /\ UNCHANGED <<smNow, notSession>>

Vehicles == {<<"w">>}
Users    == {NoUser, <<"u">>}
KnownIds == {activeSessions[i].info.sessionId : i \in DOMAIN activeSessions}

NextSession ==
  \/ \E d \in {1, DayMs} : Elapse(d)
  \/ \E v \in Vehicles : \E u \in Users : GetVehicleSession(v, u)
  \/ \E id \in KnownIds \cup {NoSessionId} : ShareSession(id, "chat")
  \/ CleanupOldSessions

SpecSession == Init /\ [][NextSession]_vars

(***************************************************************************)
(* Properties of the session manager                                       *)
(***************************************************************************)
\* C20: while the record of a (user or anonymous, vehicle) pair is in the
\* map, getVehicleSession for that pair returns the session id of the
\* record, which no step changes, and every call leaves the record with
\* lastActivity equal to the time of the call.
C20_StableSession ==
  [][/\ \A i \in DOMAIN activeSessions :
          Has(activeSessions', activeSessions[i].key) =>
            Get(activeSessions', activeSessions[i].key).sessionId
              = activeSessions[i].info.sessionId
     /\ smLast'.op = "getVehicleSession" =>
          /\ Has(activeSessions', smLast'.key)
          /\ smLast'.ret = <<Get(activeSessions', smLast'.key).sessionId>>
          /\ Get(activeSessions', smLast'.key).lastActivity = smNow'
          /\ Has(activeSessions, smLast'.key) =>
               smLast'.ret = <<Get(activeSessions, smLast'.key).sessionId>>]_vars

\* a second call for the pair, a day after the first, met the record of the
\* first call and refreshed it
C20_Witness ==
  /\ smLast.op = "getVehicleSession"
  /\ ~smLast.created
  /\ Has(activeSessions, smLast.key)
  /\ Get(activeSessions, smLast.key).createdAt = 0
  /\ Get(activeSessions, smLast.key).lastActivity = DayMs
  /\ smLast.ret = <<SessionId(<<"w">>, 0)>>

IdsOf(as) == {as[i].info.sessionId : i \in DOMAIN as}

\* C21: the first getVehicleSession of a pair creates a record with no
\* interface attached and a session id that no other record has; no two
\* records ever carry the same session id.
C21_FreshUniqueSession ==
  [][/\ \A i, j \in DOMAIN activeSessions' :
          i # j => activeSessions'[i].info.sessionId # activeSessions'[j].info.sessionId
     /\ (smLast'.op = "getVehicleSession" /\ smLast'.created) =>
          /\ Get(activeSessions', smLast'.key).activeInterfaces = {}
          /\ Get(activeSessions', smLast'.key).sessionId \notin IdsOf(activeSessions)]_vars

Stale(info, t) == t - info.lastActivity > DayMs

\* C22: a sweep deletes exactly the records whose lastActivity lies more
\* than 24 hours back and leaves the others, and their order, as they were;
\* no other call deletes a record; a getVehicleSession for a pair whose
\* record is gone creates a record dated at the time of the call.
C22_SweepExact ==
  [][/\ smLast'.op = "cleanupOldSessions" =>
          activeSessions' = SelectSeq(activeSessions, LAMBDA e : ~Stale(e.info, smNow))
     /\ \A i \in DOMAIN activeSessions :
          ~Has(activeSessions', activeSessions[i].key) =>
             smLast'.op = "cleanupOldSessions" /\ Stale(activeSessions[i].info, smNow)
     /\ (smLast'.op = "getVehicleSession" /\ smLast'.created) =>
          LET info == Get(activeSessions', smLast'.key)
          IN /\ info.createdAt = smNow /\ info.lastActivity = smNow
             /\ info.sessionId.at = smNow]_vars

\* a sweep a day and a millisecond after the start deleted two records in
\* a row and kept nothing
C22_Witness ==
  /\ smLast.op = "cleanupOldSessions"
  /\ smLast.removed = 2
  /\ activeSessions = <<>>
  /\ smNow = DayMs + 1

(***************************************************************************)
(* What the vehicle route forwards                                         *)
(***************************************************************************)
\* C23: every request forwarded by the vehicle endpoint carries
\* user_context.request_type = "vehicle_profile", whatever the inbound
\* request's user_context holds
C23_RequestTypeForced ==
  px.endpoint = "vehicle" => px.sent.request_type = "vehicle_profile"

(***************************************************************************)
(* Counting the agents of one stream                                       *)
(***************************************************************************)
\* C24: over the spawn and complete events of one aggregate, without
\* reset, total_agents never decreases and equals the number of distinct
\* agent kinds spawned so far (a kind spawned, completed and spawned again
\* counts once)
C24_TotalCountsDistinct ==
  [][lastEv'.op = "onData" =>
       /\ agentResults'.total_agents >= agentResults.total_agents
       /\ agentResults'.total_agents = Cardinality(hist'.spawned)]_vars

(***************************************************************************)
(* Specification of the reducer fed with envelopes it cannot use           *)
(***************************************************************************)
NextDrop ==
  \/ Tick
  \/ \E ev \in SpawnEvents(NotifyAgents) \cup SuccessEvents(NotifyAgents)
                \cup UnknownKindEvents \cup DatalessEvents :
       OnData("s1", ev)
  \/ Reset

SpecDrop == Init /\ [][NextDrop]_vars

\* what the handler of the event does on the state before the event
Handled(ev) ==
  IF ev.type = "agent_spawn"
  THEN handleAgentSpawn(agentResults, arrays, ev, now)
  ELSE handleAgentComplete(agentResults, arrays, ev, now, FreshRef)

Unusable(ev) == ev \in UnknownKindEvents \cup DatalessEvents

Counted(ar) ==
  <<ar.total_agents, ar.completed_agents,
    ar.listings, ar.research, ar.sentiment, ar.media>>

\* C25: a successful agent_complete whose result is of none of the four
\* kinds, and an agent_spawn or agent_complete without its data payload,
\* leave active_agents, both counters and all slots unchanged, and no
\* exception leaves the handler
C25_DroppedWithoutEffect ==
  [][(lastEv'.op = "onData" /\ Unusable(lastEv'.ev)) =>
       /\ ~Handled(lastEv'.ev).threw
       /\ arrays'[agentResults'.active_agents] = Active
       /\ Counted(agentResults') = Counted(agentResults)]_vars

(***************************************************************************)
(* The counters of an aggregate made from a state object                   *)
(***************************************************************************)
Populated(results) == {k \in Kinds : results[k] # NoData}

\* C26: the aggregate made from a state object has completed_agents equal
\* to the number of populated slots and total_agents equal to that number
\* plus the number of active agents, also when agent_data has keys outside
\* the four agent kinds
C26_SnapshotCounts ==
  [][(lastEv'.op = "applyState" /\ lastEv'.wasActive) =>
       LET results == display'.results
       IN /\ results.completed_agents = Cardinality(Populated(results))
          /\ results.total_agents =
               Cardinality(Populated(results)) + Len(results.active_agents)]_vars

(***************************************************************************)
(* The Chat component: messages change, the effect runs                    *)
(***************************************************************************)
notChat == <<parserVars, dashVars, px, activeSessions, smNow, smLast, vpd, grid>>

ChatAgents == {"research"}
ChatParts ==
  {StatusPart(a, st) : a \in ChatAgents, st \in {"started", "completed"}}
    \cup {DataPart("research", d) : d \in {NoPartData, 1, EmptyArray}}
    \cup {DataPart("media", 1)}

\* the messages array changes (new holds the parts that arrived, if any) and
\* the effect runs after the render
MessagesChange(new) ==
  LET parts   == chat.parts \o new
      results == partsEffect(chat.results, parts, now)
  IN /\ Len(parts) <= MaxParts
     /\ results.total_agents <= MaxCount
     /\ results.completed_agents <= MaxCount
     /\ chat' = [results |-> results, parts |-> parts]
     /\ UNCHANGED notChat

NextChat ==
  \/ \E part \in ChatParts : MessagesChange(<<part>>)
  \/ MessagesChange(<<>>)

SpecChat == Init /\ [][NextChat]_vars

Started(parts) ==
  {parts[i].agent : i \in {j \in DOMAIN parts : parts[j].dataType = "agent-status"
                                                  /\ parts[j].status = "started"}}

\* C27: however often the effect walks the parts again, total_agents is the
\* number of distinct agents with a 'started' agent-status part and
\* completed_agents is the number of populated slots
C27_RewalkIdempotent ==
  /\ chat.results.total_agents = Cardinality(Started(chat.parts))
  /\ chat.results.completed_agents =
       Cardinality({k \in Kinds : chat.results[k] # Undefined})

(***************************************************************************)
(* The vehicle dashboard: data parts and renders                           *)
(***************************************************************************)
notVpd == <<agentResults, arrays, listeners, now, seen, calls, hist, lastEv, registry,
            lastRaw, px, lastSnap, activeSessions, smNow, smLast, chat, grid>>

\* dataPart.data of a data-<kind> part: 0 is anything but a non-empty array,
\* n > 0 a non-empty array whose first item is n
PartItem(n) == [agent_id |-> <<"part", n>>, body |-> n]

\* onData of the dashboard: the callback copies the agentResults of the
\* render it was made in, writes one slot and sets the state
vpdOnData(closure, dataType, data, agents, t) ==
  LET updatedResults ==
        CASE dataType \in Kinds /\ data > 0 ->
               [closure EXCEPT ![dataType] = PartItem(data)]
          [] dataType = "agent-status" ->
               [closure EXCEPT !.active_agents = agents]
          [] OTHER -> closure
  IN [updatedResults EXCEPT !.last_updated = t]

DataPartArrives(dataType, data, agents) ==
  /\ display' = [src |-> "local",
                 results |-> vpdOnData(vpd.rendered, dataType, data, agents, now)]
  /\ vpd' = [vpd EXCEPT !.received =
                IF dataType \in Kinds /\ data > 0 THEN @ \cup {dataType} ELSE @]
  /\ UNCHANGED notVpd

\* React renders the component with the state last set
Render ==
  /\ vpd.rendered # Shown
  /\ vpd' = [vpd EXCEPT !.rendered = Shown]
  /\ UNCHANGED <<display, notVpd>>

VpdKinds == {"media", "research"}

NextVpd ==
  \/ Tick
  \/ \E k \in VpdKinds : \E d \in 0..MaxPayload : DataPartArrives(k, d, <<>>)
  \/ \E a \in {<<>>, <<"media">>} : DataPartArrives("agent-status", 1, a)
  \/ Render

SpecVpd == Init /\ [][NextVpd]_vars

\* C28: once data parts of two different kinds have been received, both
\* slots are populated in what the dashboard displays, whether or not a
\* render came between the two parts
C28_NoLostUpdate ==
  (Cardinality(vpd.received) >= 2 /\ vpd.rendered = Shown) =>
     \A k \in vpd.received : vpd.rendered[k] # NoData

(***************************************************************************)
(* The mounted dashboard: data parts, parser notifications, stream finish  *)
(***************************************************************************)
\* the state objects a finished stream can carry in this specification
FinishStates ==
  {st \in States : /\ st.hasActive /\ st.active_agents = <<>>
                   /\ st.agent_data["media"] = <<>>
                   /\ st.agent_data["analytics"] = <<>>
                   /\ Len(st.agent_data["research"]) <= 1}

NextMounted ==
  \/ \E cb \in KeepCallbacks : OnUpdate(DashKey, cb)
  \/ \E ev \in SuccessEvents(HubAgents) : OnData("s1", ev)
  \/ \E state \in FinishStates : ApplyState(state)
  \/ \E d \in 1..MaxPayload : DataPartArrives("media", d, <<>>)
  \/ Render

SpecMounted == Init /\ [][NextMounted]_vars

\* the slot shows the first item of a data part
WrittenByPart(slot) == slot # NoData /\ slot.agent_id[1] = "part"

\* C29: a payload slot the dashboard has displayed as populated is never
\* displayed empty again: data written by a data part survives the parser
\* notifying the dashboard and the parse of the state object at stream finish
C29_SlotStaysPopulated ==
  [][\A k \in Kinds : WrittenByPart(vpd.rendered[k]) => vpd'.rendered[k] # NoData]_vars

(***************************************************************************)
(* ListingsGrid: the stagger effect and its timers                         *)
(***************************************************************************)
MaxListings == 3

notGrid == <<parserVars, dashVars, px, activeSessions, smNow, smLast, chat, vpd>>

\* the effect on [listings, animatedListings.length]: one timer per listing
\* past the animated length, in the order of their delays
staggerEffect(g) ==
  IF Len(g.listings) > Len(g.animatedListings)
  THEN LET newListings == SubSeq(g.listings, Len(g.animatedListings) + 1, Len(g.listings))
       IN [g EXCEPT !.timers = Append(@, newListings), !.stale = FALSE]
  ELSE [g EXCEPT !.stale = FALSE]

\* the parent renders the grid with one more listing
ListingsGrow ==
  /\ Len(grid.listings) < MaxListings
  /\ grid' = [grid EXCEPT !.listings = Append(@, Len(@) + 1), !.stale = TRUE]
  /\ UNCHANGED notGrid

\* the render after a change of the dependencies, and the effect after it
RunEffect ==
  /\ grid.stale
  /\ grid' = staggerEffect(grid)
  /\ UNCHANGED notGrid

\* the earliest timer of one effect run fires: prev => [...prev, listing]
TimerFires(b) ==
  /\ grid.timers[b] # <<>>
  /\ grid' = [grid EXCEPT !.animatedListings = Append(@, Head(grid.timers[b])),
                          !.timers[b] = Tail(@),
                          !.stale = TRUE]
  /\ UNCHANGED notGrid

NextGrid ==
  \/ ListingsGrow
  \/ RunEffect
  \/ \E b \in DOMAIN grid.timers : TimerFires(b)

SpecGrid == Init /\ [][NextGrid]_vars

NoTimerLeft == \A b \in DOMAIN grid.timers : grid.timers[b] = <<>>

\* C30: animatedListings never holds a listing twice, is never longer than
\* listings, and equals listings once every scheduled timer has fired
C30_AnimatedFollowsListings ==
  /\ \A i, j \in DOMAIN grid.animatedListings :
        i # j => grid.animatedListings[i] # grid.animatedListings[j]
  /\ Len(grid.animatedListings) <= Len(grid.listings)
  /\ (NoTimerLeft /\ ~grid.stale) => grid.animatedListings = grid.listings
====
